---- MODULE Spec2Model ----
(***************************************************************************)
(* Batch processing engine of the tagline application (src/App.tsx,        *)
(* src/BatchCard.tsx, services/geminiService = src/unnamed/part_001).      *)
(*                                                                         *)
(* One step of the model is one task of the browser's event loop: a user   *)
(* event handler, or the continuation that runs when a promise the engine  *)
(* awaits (a provider call, a file decode) settles, together with all the  *)
(* microtasks it triggers.  React state is read as rendered: every handler *)
(* sees the state left by the previous task.  Item identifiers are fresh   *)
(* (Math.random collisions are not modelled).                              *)
(***************************************************************************)
EXTENDS Integers, Sequences, FiniteSets, TLC

\* ---------------------------------------------------------------- constants
\* src/App.tsx:8
CONCURRENCY_LIMIT == 5

\* Bounds of the model.
\* Identifiers ever generated under Spec, SpecEngine, SpecBatch, SpecScenario
\* SpecSelection, SpecAdapter, SpecIntake (and SpecDecode) and SpecRun; files of
\* one submission under SpecIntake and SpecDecode.
MaxItems == 2
EngineItems == 4
BatchItems == 6
ScenarioItems == 7
SelectionItems == 2
AdapterItems == 3
IntakeItems == 3
RunItems == 6
IntakeFiles == 3

\* Messages of the errors analyzeSingle records.
EmptyMsg == "Empty response from AI"
InvalidMsg == "Invalid format received from AI"
TransportMsg == "transport failure"
LostMsg == "Image data lost"

\* What the provider can answer to one call: a conforming JSON body, an empty
\* body, a body JSON.parse rejects, and a rejected request.
Responses == {"ok", "empty", "unparsable", "reject"}

\* A body that is a JSON object but lacks a required field of the schema (here
\* `description`; taglines, keywords and platforms are as in a conforming one).
NonConforming == "nonconforming"

VARIABLES
  batch,               \* useState<BatchItem[]>: sequence of items, newest first
  base64Store,         \* useRef<Map<id, payload>>: ids with a stored payload
  selectedKeywordsMap, \* useState<Record<id, string[]>>
  isProcessingAll,     \* useState<boolean>
  isPreparing,         \* useState<boolean>
  intakes,             \* addFilesToBatch calls awaiting Promise.all
  queue,               \* processAll's shared queue (ids of the snapshot left)
  pendingItems,        \* processAll's snapshot (ids), while the run is active
  workers,             \* length of processAll's workers array, while active
  calls,               \* analyzeImage calls awaiting the provider
  nextId,              \* next fresh identifier
  selectedResultId,    \* useState<string | null>: item of the result modal, 0 = null
  previews             \* object URLs created, each with the revocations it received

vars == <<batch, base64Store, selectedKeywordsMap, isProcessingAll, isPreparing,
          intakes, queue, pendingItems, workers, calls, nextId, selectedResultId,
          previews>>

\* ------------------------------------------------------------------ helpers
Min(a, b) == IF a < b THEN a ELSE b

Range(s) == {s[i] : i \in DOMAIN s}

Ids(b) == {b[i].id : i \in DOMAIN b}

\* batch.find(i => i.id === id); only used where id is in Ids(b).
Find(b, id) == b[CHOOSE i \in DOMAIN b : b[i].id = id]

\* batch.filter(keep)
RECURSIVE FilterSeq(_, _)
FilterSeq(s, keep) ==
  IF s = <<>> THEN <<>>
  ELSE IF Head(s).id \in keep THEN <<Head(s)>> \o FilterSeq(Tail(s), keep)
       ELSE FilterSeq(Tail(s), keep)

\* The item a capture or a normalized file creates.
NewItem(id) == [id |-> id, status |-> "pending", result |-> "none", error |-> "none"]

\* ---------------------------------------------------------- provider adapter
\* analyzeImage: what the call yields for each provider answer.  JSON.parse(text)
\* is returned as it is: a parsed body is not checked against the schema, and
\* analyzeSingle copies whatever fields it has into the result.
analyzeImage(resp) ==
  CASE resp = "reject"     -> [threw |-> TRUE,  message |-> TransportMsg, value |-> "none"]
    [] resp = "empty"      -> [threw |-> TRUE,  message |-> EmptyMsg,     value |-> "none"]
    [] resp = "unparsable" -> [threw |-> TRUE,  message |-> InvalidMsg,   value |-> "none"]
    [] resp = NonConforming -> [threw |-> FALSE, message |-> "none",      value |-> "partial"]
    [] OTHER               -> [threw |-> FALSE, message |-> "none",       value |-> "full"]

\* ------------------------------------------------------- writes of the store
\* setBatch(prev => prev.map(i => i.id === id ? {...i, status:'processing', error: undefined} : i))
MarkProcessing(b, id) ==
  [i \in DOMAIN b |->
     IF b[i].id = id THEN [b[i] EXCEPT !.status = "processing", !.error = "none"]
     ELSE b[i]]

\* setBatch(prev => prev.map(i => i.id === id ? {...i, status:'error', error: msg} : i))
MarkError(b, id, msg) ==
  [i \in DOMAIN b |->
     IF b[i].id = id THEN [b[i] EXCEPT !.status = "error", !.error = msg]
     ELSE b[i]]

\* setBatch(prev => prev.map(i => i.id === id ? {...i, status:'completed', result} : i))
MarkCompleted(b, id, res) ==
  [i \in DOMAIN b |->
     IF b[i].id = id THEN [b[i] EXCEPT !.status = "completed", !.result = res]
     ELSE b[i]]

\* A terminal write that inserts the item when it finds none to update.
TerminalUpsert(b, id, resp) ==
  LET r == analyzeImage(resp)
      item == IF r.threw
              THEN [id |-> id, status |-> "error", result |-> "none", error |-> r.message]
              ELSE [id |-> id, status |-> "completed", result |-> r.value, error |-> "none"]
  IN  IF id \in Ids(b)
      THEN (IF r.threw THEN MarkError(b, id, r.message) ELSE MarkCompleted(b, id, r.value))
      ELSE <<item>> \o b

\* The terminal write of analyzeSingle once analyzeImage has settled.
TerminalWrite(b, id, resp) ==
  LET r == analyzeImage(resp)
  IN  IF r.threw THEN MarkError(b, id, r.message) ELSE MarkCompleted(b, id, r.value)

\* ------------------------------------------------------------ analyzeSingle
WorkerCalls(cs) == {c \in cs : c.by = "worker"}

UserCalls(cs) == {c \in cs : c.by = "user"}

\* The status analyzeSingle finds on entry ("gone" for a removed item).
StatusOf(b, id) == IF id \in Ids(b) THEN Find(b, id).status ELSE "gone"

\* An analyzeSingle without the payload check.
StartAnalysisUnchecked(b, cs, id, by) ==
  [batch |-> MarkProcessing(b, id),
   calls |-> cs \cup {[id |-> id, by |-> by, retry |-> StatusOf(b, id) = "error"]},
   issued |-> TRUE]

\* analyzeSingle(id) up to its await: the processing write, the payload lookup
\* and, when the payload is missing, the error write; otherwise the provider
\* call is issued on behalf of `by` (a call records who issued it and whether
\* its analyzeSingle found the item in status error, i.e. is a re-attempt).
StartAnalysis(b, cs, id, by) ==
  LET b1 == MarkProcessing(b, id)
      call == [id |-> id, by |-> by, retry |-> StatusOf(b, id) = "error"]
  IN  IF id \in base64Store
      THEN [batch |-> b1, calls |-> cs \cup {call}, issued |-> TRUE]
      ELSE [batch |-> MarkError(b1, id, LostMsg), calls |-> cs, issued |-> FALSE]

\* ---------------------------------------------------------------- processAll
\* A filter that keeps everything not processing.
EligibleNotProcessing(status) == status # "processing"

\* batch.filter(i => i.status === 'pending' || i.status === 'error')
Eligible(status) == status \in {"pending", "error"}

RECURSIVE EligibleIds(_)
EligibleIds(b) ==
  IF b = <<>> THEN <<>>
  ELSE IF Eligible(Head(b).status) THEN <<Head(b).id>> \o EligibleIds(Tail(b))
       ELSE EligibleIds(Tail(b))

\* A guard that forgets the run in progress.
RejectedEmptyOnly(n, busy) == n = 0

\* if (pendingItems.length === 0 || isProcessingAll) return;
Rejected(n, busy) == n = 0 \/ busy

\* One worker per queued item.
WorkerPerItem(n) == n

\* Array(Math.min(CONCURRENCY_LIMIT, queue.length))
WorkerCount(n) == Min(CONCURRENCY_LIMIT, n)

\* Workers that read the head of the queue without taking it off.
WorkersPeek(b, q, cs, free) ==
  IF free = 0 \/ q = <<>> THEN [batch |-> b, queue |-> q, calls |-> cs]
  ELSE LET s == StartAnalysis(b, cs, Head(q), "worker")
       IN  [batch |-> s.batch, queue |-> q, calls |-> s.calls]

\* `free` workers run `while (queue.length > 0) { item = queue.shift();
\* await analyzeSingle(item.id) }` until each of them awaits a provider call or
\* the queue is empty.  An analyzeSingle that takes the payload-lost branch
\* settles at once, and its worker dequeues again within the same task.
RECURSIVE Workers(_, _, _, _)
Workers(b, q, cs, free) ==
  IF free = 0 \/ q = <<>> THEN [batch |-> b, queue |-> q, calls |-> cs]
  ELSE LET s == StartAnalysis(b, cs, Head(q), "worker")
       IN  Workers(s.batch, Tail(q), s.calls, IF s.issued THEN free - 1 ELSE free)

\* A worker that stops after its first item (`if` for `while`).
WorkerResumeOnce(b, q, cs, resp) == [batch |-> b, queue |-> q, calls |-> cs]

\* A worker that a failed analysis ends (the error escaping analyzeSingle).
WorkerResumeUncaught(b, q, cs, resp) ==
  IF analyzeImage(resp).threw THEN [batch |-> b, queue |-> q, calls |-> cs]
  ELSE Workers(b, q, cs, 1)

\* The worker whose analyzeSingle has just settled goes round its loop again,
\* whatever analyzeImage yielded for resp: analyzeSingle catches every error.
WorkerResume(b, q, cs, resp) == Workers(b, q, cs, 1)

\* A run whose flag is never cleared.
RunStateNeverCleared(d, n, snapshot) ==
  [busy |-> TRUE, workers |-> n, snapshot |-> snapshot]

\* await Promise.all(workers); setIsProcessingAll(false): the run is over once no
\* worker awaits a call (a worker only returns on an empty queue).
RunState(d, n, snapshot) ==
  IF WorkerCalls(d.calls) = {}
  THEN [busy |-> FALSE, workers |-> 0, snapshot |-> <<>>]
  ELSE [busy |-> TRUE, workers |-> n, snapshot |-> snapshot]

ProcessAll ==
  LET snapshot == EligibleIds(batch)
  IN  IF Rejected(Len(snapshot), isProcessingAll)
      THEN UNCHANGED vars
      ELSE LET n == WorkerCount(Len(snapshot))
               d == Workers(batch, snapshot, calls, n)
               r == RunState(d, n, snapshot)
           IN  /\ batch' = d.batch
               /\ queue' = d.queue
               /\ calls' = d.calls
               /\ isProcessingAll' = r.busy
               /\ workers' = r.workers
               /\ pendingItems' = r.snapshot
               /\ UNCHANGED <<base64Store, selectedKeywordsMap, isPreparing,
                              intakes, nextId, selectedResultId, previews>>

\* The "Start Analysis" button of a card (BatchCard renders it for a pending
\* item only) calls analyzeSingle(id).
AnalyzeOne(id) ==
  /\ id \in Ids(batch)
  /\ Find(batch, id).status = "pending"
  /\ LET s == StartAnalysis(batch, calls, id, "user")
     IN  /\ batch' = s.batch
         /\ calls' = s.calls
  /\ UNCHANGED <<base64Store, selectedKeywordsMap, isProcessingAll, isPreparing,
                 intakes, queue, pendingItems, workers, nextId, selectedResultId,
                 previews>>

\* The provider answers call c with resp: analyzeSingle resumes after its await
\* and writes the terminal state; a worker's call also resumes the worker, and
\* the last worker to return ends the run.
ProviderReturn(c, resp) ==
  /\ c \in calls
  /\ LET b1 == TerminalWrite(batch, c.id, resp)
         cs1 == calls \ {c}
     IN  IF c.by = "user"
         THEN /\ batch' = b1
              /\ calls' = cs1
              /\ UNCHANGED <<queue, isProcessingAll, workers, pendingItems>>
         ELSE LET d == WorkerResume(b1, queue, cs1, resp)
                  r == RunState(d, workers, pendingItems)
              IN  /\ batch' = d.batch
                  /\ queue' = d.queue
                  /\ calls' = d.calls
                  /\ isProcessingAll' = r.busy
                  /\ workers' = r.workers
                  /\ pendingItems' = r.snapshot
  /\ UNCHANGED <<base64Store, selectedKeywordsMap, isPreparing, intakes, nextId,
                 selectedResultId, previews>>

\* ------------------------------------------------------- removal and clearing
\* A removal that revokes nothing.
RevokeNone(p, ids) == p

\* URL.revokeObjectURL on the previews of the items `ids`: a revocation is
\* counted on every object URL among them (the data URL of a captured photo is
\* no object URL, revoking it does nothing).
Revoke(p, ids) == [h \in DOMAIN p |-> IF h \in ids THEN p[h] + 1 ELSE p[h]]

\* An entry that survives the removal of its item.
KeepEntry(m, id) == m

\* const next = { ...prev }; delete next[id]
DeleteEntry(m, id) == [k \in DOMAIN m \ {id} |-> m[k]]

\* removeItem(id); BatchCard renders the remove button unless the item is
\* processing.
Remove(id) ==
  /\ id \in Ids(batch)
  /\ Find(batch, id).status # "processing"
  /\ batch' = FilterSeq(batch, Ids(batch) \ {id})
  /\ base64Store' = base64Store \ {id}
  /\ previews' = Revoke(previews, {id})
  /\ selectedKeywordsMap' = DeleteEntry(selectedKeywordsMap, id)
  /\ UNCHANGED <<isProcessingAll, isPreparing, intakes, queue, pendingItems,
                 workers, calls, nextId, selectedResultId>>

\* clearBatch(); the "Clear Workspace" button is rendered when completedCount > 0.
\* A declined window.confirm leaves everything as it is.
ClearAll(confirmed) ==
  /\ \E i \in DOMAIN batch : batch[i].status = "completed"
  /\ IF confirmed
     THEN /\ previews' = Revoke(previews, Ids(batch))
          /\ batch' = <<>>
          /\ selectedKeywordsMap' = <<>>
          /\ base64Store' = {}
     ELSE UNCHANGED <<batch, selectedKeywordsMap, base64Store, previews>>
  /\ UNCHANGED <<isProcessingAll, isPreparing, intakes, queue, pendingItems,
                 workers, calls, nextId, selectedResultId>>

\* ---------------------------------------------------------- keyword selection
\* The platform tabs and the sort orders of a keyword view.
Platforms == {"Adobe Stock", "Shutterstock", "Freepik"}

PlatformTabs == {"All"} \cup Platforms

Sorts == {"relevance", "alphabetical"}

\* The keywords of an analysis result (result.keywords), in the order the
\* provider gave them.  A word may occur twice; no keyword suits Freepik.
FullKeywords ==
  << [word |-> "sky", relevance |-> 90, platforms |-> {"Adobe Stock", "Shutterstock"}],
     [word |-> "sea", relevance |-> 70, platforms |-> {"Adobe Stock"}],
     [word |-> "sky", relevance |-> 40, platforms |-> {"Shutterstock"}] >>

KeywordsOf(result) == IF result = "none" THEN <<>> ELSE FullKeywords

\* a.word.localeCompare(b.word) < 0
WordOrder == <<"sea", "sky">>

Rank(w) == CHOOSE i \in DOMAIN WordOrder : WordOrder[i] = w

\* The comparator of kws.sort: a goes strictly before b.
Before(a, b, sort) ==
  IF sort = "relevance" THEN a.relevance > b.relevance
  ELSE Rank(a.word) < Rank(b.word)

\* Array.prototype.sort is stable: equal keywords keep their order.
RECURSIVE InsertSorted(_, _, _)
InsertSorted(k, s, sort) ==
  IF s = <<>> THEN <<k>>
  ELSE IF ~Before(Head(s), k, sort) THEN <<k>> \o s
       ELSE <<Head(s)>> \o InsertSorted(k, Tail(s), sort)

RECURSIVE SortKeywords(_, _)
SortKeywords(s, sort) ==
  IF s = <<>> THEN <<>>
  ELSE InsertSorted(Head(s), SortKeywords(Tail(s), sort), sort)

\* kws.filter(k => k.platforms.includes(platform)), skipped for 'All'
OnPlatform(kws, platform) ==
  IF platform = "All" THEN kws
  ELSE SelectSeq(kws, LAMBDA k : platform \in k.platforms)

\* A view that ignores the platform tab.
unfilteredKeywords(result, platform, sort) == SortKeywords(KeywordsOf(result), sort)

\* ResultModal.filteredKeywords (and BatchCard's, with 'All' and 'relevance')
filteredKeywords(result, platform, sort) ==
  SortKeywords(OnPlatform(KeywordsOf(result), platform), sort)

\* keywords.map(k => k.word)
WordsOf(kws) == [i \in DOMAIN kws |-> kws[i].word]

\* { ...prev, [itemId]: value }
Put(m, id, value) == [k \in DOMAIN m \cup {id} |-> IF k = id THEN value ELSE m[k]]

\* prev[itemId] || []
Selected(m, id) == IF id \in DOMAIN m THEN m[id] ELSE <<>>

\* A toggle that always adds the word.
ToggleAppend(current, keyword) == Append(current, keyword)

\* current.includes(keyword) ? current.filter(k => k !== keyword) : [...current, keyword]
Toggle(current, keyword) ==
  IF keyword \in Range(current) THEN SelectSeq(current, LAMBDA k : k # keyword)
  ELSE Append(current, keyword)

\* The card wrapper's onClick: item.status === 'completed' && setSelectedResultId(item.id)
OpenResult(id) ==
  /\ id \in Ids(batch)
  /\ Find(batch, id).status = "completed"
  /\ selectedResultId' = id
  /\ UNCHANGED <<batch, base64Store, selectedKeywordsMap, isProcessingAll, isPreparing,
                 intakes, queue, pendingItems, workers, calls, nextId, previews>>

\* onClose of the modal, or Escape: setSelectedResultId(null)
CloseResult ==
  /\ selectedResultId # 0
  /\ selectedResultId' = 0
  /\ UNCHANGED <<batch, base64Store, selectedKeywordsMap, isProcessingAll, isPreparing,
                 intakes, queue, pendingItems, workers, calls, nextId, previews>>

\* handleToggleKeyword(id, keyword), called from the chips of a card (rendered
\* for a completed item with a result) or of the modal (rendered while its item
\* is in the store); the chips are words of the item's result.
ToggleKeyword(id, keyword) ==
  /\ id \in Ids(batch)
  /\ \/ Find(batch, id).status = "completed" /\ Find(batch, id).result # "none"
     \/ selectedResultId = id
  /\ keyword \in Range(WordsOf(KeywordsOf(Find(batch, id).result)))
  /\ selectedKeywordsMap' =
       Put(selectedKeywordsMap, id, Toggle(Selected(selectedKeywordsMap, id), keyword))
  /\ UNCHANGED <<batch, base64Store, isProcessingAll, isPreparing, intakes, queue,
                 pendingItems, workers, calls, nextId, selectedResultId, previews>>

\* "Select Page" of the modal: handleSelectAllInItem(currentSelectedItem.id,
\* filteredKeywords) with the platform tab and the sort order the modal shows.
SelectAll(platform, sort) ==
  /\ selectedResultId \in Ids(batch)
  /\ selectedKeywordsMap' =
       Put(selectedKeywordsMap, selectedResultId,
           WordsOf(filteredKeywords(Find(batch, selectedResultId).result, platform, sort)))
  /\ UNCHANGED <<batch, base64Store, isProcessingAll, isPreparing, intakes, queue,
                 pendingItems, workers, calls, nextId, selectedResultId, previews>>

\* --------------------------------------------------------------------- intake
\* capturePhoto(): one pending item, its payload stored under a fresh id.
CapturePhoto(max) ==
  /\ nextId <= max
  /\ base64Store' = base64Store \cup {nextId}
  /\ batch' = <<NewItem(nextId)>> \o batch
  /\ nextId' = nextId + 1
  /\ UNCHANGED <<selectedKeywordsMap, isProcessingAll, isPreparing, intakes, queue,
                 pendingItems, workers, calls, selectedResultId, previews>>

\* URL.createObjectURL(file) in resizeImage: the object URL of the item that
\* gets identifier id, not revoked yet.
CreateObjectURL(p, id) == [h \in DOMAIN p \cup {id} |-> IF h = id THEN 0 ELSE p[h]]

\* A submitted file: an image that decodes, a file of an image type that does
\* not decode, and a file of another type.
FileKinds == {"image", "corrupt", "other"}

\* f.type.startsWith('image/')
IsImageType(kind) == kind \in {"image", "corrupt"}

\* What addFilesToBatch does with one file of the list it is given:
\* files.filter(f => f.type.startsWith('image/')) keeps it for resizeImage or
\* leaves it out.  A file left out raises nothing, sets no state and shows no
\* message: the call goes on with the other files.
Disposition(kind) == IF IsImageType(kind) THEN "normalized" ELSE "dropped silently"

RECURSIVE ImageEntries(_)
ImageEntries(files) ==
  IF files = <<>> THEN <<>>
  ELSE IF IsImageType(Head(files))
       THEN <<[kind |-> Head(files), id |-> 0]>> \o ImageEntries(Tail(files))
       ELSE ImageEntries(Tail(files))

\* The submissions tried: up to max files each, the empty list included (a drop
\* or a change event that carries no file).
Submissions(max) == UNION {[1..n -> FileKinds] : n \in 0..max}

\* Files of the submissions in flight that resizeImage has not resolved.
RECURSIVE Unresolved(_)
Unresolved(ins) ==
  IF ins = <<>> THEN 0
  ELSE Cardinality({k \in DOMAIN Head(ins) : Head(ins)[k].id = 0}) + Unresolved(Tail(ins))

\* addFilesToBatch(files) up to `await Promise.all`.  An empty list returns at
\* once (`if (files.length === 0) return`) and sets nothing.  Otherwise
\* resizeImage is started on every file of an image type; with no such file
\* Promise.all settles at once and `finally` resets isPreparing.  The files in
\* flight are bounded by the identifiers left (max in all).
AddFiles(files, max) ==
  IF files = <<>>
  THEN UNCHANGED vars
  ELSE /\ LET entries == ImageEntries(files)
          IN  /\ nextId + Unresolved(intakes) + Len(entries) <= max + 1
              /\ IF entries = <<>>
                 THEN /\ isPreparing' = FALSE
                      /\ UNCHANGED intakes
                 ELSE /\ isPreparing' = TRUE
                      /\ intakes' = Append(intakes, entries)
       /\ UNCHANGED <<batch, base64Store, selectedKeywordsMap, isProcessingAll, queue,
                      pendingItems, workers, calls, nextId, selectedResultId, previews>>

Resolved(entries) == \A k \in DOMAIN entries : entries[k].id # 0

ItemsOf(entries) == [k \in DOMAIN entries |-> NewItem(entries[k].id)]

RemoveAt(s, n) == [k \in 1..(Len(s) - 1) |-> IF k < n THEN s[k] ELSE s[k + 1]]

\* resizeImage resolves for file k of submission n (img.onload; a file that does
\* not decode never resolves): the payload is stored under a fresh id.  When it
\* was the last file of its submission, Promise.all settles and the items are
\* prepended in file order.
FileDecoded(n, k) ==
  /\ n \in DOMAIN intakes
  /\ k \in DOMAIN intakes[n]
  /\ intakes[n][k].kind = "image"
  /\ intakes[n][k].id = 0
  /\ LET entries == [intakes[n] EXCEPT ![k].id = nextId]
     IN  /\ previews' = CreateObjectURL(previews, nextId)
         /\ base64Store' = base64Store \cup {nextId}
         /\ nextId' = nextId + 1
         /\ IF Resolved(entries)
            THEN /\ batch' = ItemsOf(entries) \o batch
                 /\ intakes' = RemoveAt(intakes, n)
                 /\ isPreparing' = FALSE
            ELSE /\ intakes' = [intakes EXCEPT ![n] = entries]
                 /\ UNCHANGED <<batch, isPreparing>>
  /\ UNCHANGED <<selectedKeywordsMap, isProcessingAll, queue, pendingItems,
                 workers, calls, selectedResultId>>

\* ------------------------------------------------------------- specifications
Init ==
  /\ batch = <<>>
  /\ base64Store = {}
  /\ selectedKeywordsMap = <<>>
  /\ isProcessingAll = FALSE
  /\ isPreparing = FALSE
  /\ intakes = <<>>
  /\ queue = <<>>
  /\ pendingItems = <<>>
  /\ workers = 0
  /\ calls = {}
  /\ nextId = 1
  /\ selectedResultId = 0
  /\ previews = <<>>

AllIds == 1..(ScenarioItems + 2)

\* The whole engine on a few items: every intake path, every provider answer.
Next ==
  \/ \E files \in Submissions(MaxItems) : AddFiles(files, MaxItems)
  \/ \E n \in 1..MaxItems, k \in 1..MaxItems : FileDecoded(n, k)
  \/ CapturePhoto(MaxItems)
  \/ \E id \in AllIds : AnalyzeOne(id)
  \/ ProcessAll
  \/ \E c \in calls, resp \in Responses : ProviderReturn(c, resp)
  \/ \E id \in AllIds : Remove(id)
  \/ \E confirmed \in BOOLEAN : ClearAll(confirmed)

Spec == Init /\ [][Next]_vars

\* The engine without file intake (items come from the camera): every direct
\* analysis, batch run, removal and clearing, and every provider answer.
NextEngine ==
  \/ CapturePhoto(EngineItems)
  \/ \E id \in AllIds : AnalyzeOne(id)
  \/ ProcessAll
  \/ \E c \in calls, resp \in Responses : ProviderReturn(c, resp)
  \/ \E id \in AllIds : Remove(id)
  \/ \E confirmed \in BOOLEAN : ClearAll(confirmed)

SpecEngine == Init /\ [][NextEngine]_vars

\* A batch larger than the worker pool and the user interfering with a run:
\* captured items, batch runs, direct analyses of items the run has queued,
\* removals of items the run has queued or is analysing, clearing, and a
\* provider that answers with a conforming body or an empty one.  (Direct
\* analyses and removals outside a run are part of Spec and SpecEngine.)
NextBatch ==
  \/ CapturePhoto(BatchItems)
  \/ \E id \in Range(queue) : AnalyzeOne(id)
  \/ ProcessAll
  \/ \E c \in calls, resp \in {"ok", "empty"} : ProviderReturn(c, resp)
  \/ \E id \in Range(queue) \cup {c.id : c \in calls} : Remove(id)
  \/ \E confirmed \in BOOLEAN : ClearAll(confirmed)

SpecBatch == Init /\ [][NextBatch]_vars

\* The scenario of a run over more items than workers with a provider that
\* always succeeds and always answers.
ProviderSucceeds == \E c \in calls : ProviderReturn(c, "ok")

NextScenario ==
  \/ CapturePhoto(ScenarioItems)
  \/ \E id \in Range(queue) : AnalyzeOne(id)
  \/ ProcessAll
  \/ ProviderSucceeds

SpecScenario == Init /\ [][NextScenario]_vars /\ WF_vars(ProviderSucceeds)

\* Runs over more items than workers, with a provider that answers every call
\* in the end, with a conforming body or an empty one; the user clears the
\* store during a run or between runs.
ProviderAnswers == \E c \in calls, resp \in {"ok", "empty"} : ProviderReturn(c, resp)

NextRun ==
  \/ CapturePhoto(RunItems)
  \/ ProcessAll
  \/ ProviderAnswers
  \/ ClearAll(TRUE)

SpecRun == Init /\ [][NextRun]_vars /\ WF_vars(ProviderAnswers)

\* Keyword selection on analysed items: captured items, direct analyses that
\* succeed, the result modal, toggles and "Select Page" on every view, removal
\* and clearing.
NextSelection ==
  \/ CapturePhoto(SelectionItems)
  \/ \E id \in AllIds : AnalyzeOne(id)
  \/ ProviderSucceeds
  \/ \E id \in AllIds : OpenResult(id)
  \/ CloseResult
  \/ \E id \in AllIds, keyword \in Range(WordOrder) : ToggleKeyword(id, keyword)
  \/ \E platform \in PlatformTabs, sort \in Sorts : SelectAll(platform, sort)
  \/ \E id \in AllIds : Remove(id)
  \/ \E confirmed \in BOOLEAN : ClearAll(confirmed)

SpecSelection == Init /\ [][NextSelection]_vars

\* The provider adapter under every kind of answer, non-conforming bodies
\* included: captured items, direct analyses, batch runs.
NextAdapter ==
  \/ CapturePhoto(AdapterItems)
  \/ \E id \in AllIds : AnalyzeOne(id)
  \/ ProcessAll
  \/ \E c \in calls, resp \in Responses \cup {NonConforming} : ProviderReturn(c, resp)

SpecAdapter == Init /\ [][NextAdapter]_vars

\* File intake next to the rest of the store's life: submissions of up to
\* IntakeFiles files of every kind, decodes in any order, direct analyses and
\* batch runs with a provider that succeeds, removal and clearing.
NextIntake ==
  \/ \E files \in Submissions(IntakeFiles) : AddFiles(files, IntakeItems)
  \/ \E n \in 1..IntakeItems, k \in 1..IntakeFiles : FileDecoded(n, k)
  \/ \E id \in AllIds : AnalyzeOne(id)
  \/ ProcessAll
  \/ ProviderSucceeds
  \/ \E id \in AllIds : Remove(id)
  \/ \E confirmed \in BOOLEAN : ClearAll(confirmed)

SpecIntake == Init /\ [][NextIntake]_vars

\* File intake with a browser that decodes every decodable file in the end
\* (the load events of FileReader and Image are delivered).
Decodes == \E n \in 1..IntakeItems, k \in 1..IntakeFiles : FileDecoded(n, k)

SpecDecode == Init /\ [][NextIntake]_vars /\ WF_vars(Decodes)

\* ===================================================================== claims
StatusIn(b, id) == Find(b, id).status

NoEligible(b) == \A k \in DOMAIN b : b[k].status \notin {"pending", "error"}

\* Ids the step has taken off the queue.
Dequeued == Range(queue) \ Range(queue')

AllowedTransitions ==
  {<<"pending", "processing">>, <<"error", "processing">>,
   <<"processing", "completed">>, <<"processing", "error">>}

\* C1: the status of an item that stays in the store changes only along
\* pending->processing, error->processing, processing->completed and
\* processing->error; a completed item never goes back to processing.
C1_StatusTransitions ==
  [][\A id \in Ids(batch) \cap Ids(batch') :
       StatusIn(batch, id) # StatusIn(batch', id)
         => <<StatusIn(batch, id), StatusIn(batch', id)>> \in AllowedTransitions]_vars

\* C2: at every instant at most one analyzeOne call per item id is in flight,
\* whoever issued it.
C2_SingleFlight ==
  \A id \in AllIds : Cardinality({c \in calls : c.id = id}) <= 1

\* C3: the provider calls in flight issued by a processAll run never exceed
\* min(CONCURRENCY_LIMIT, length of the run's snapshot), and exactly that many
\* workers are started.
C3_WorkerBound ==
  /\ Cardinality(WorkerCalls(calls)) <= Min(CONCURRENCY_LIMIT, Len(pendingItems))
  /\ isProcessingAll => workers = Min(CONCURRENCY_LIMIT, Len(pendingItems))

\* C3 witness: a run over more items than the limit has the whole pool busy
\* and an item still queued.
C3_PoolSaturated ==
  /\ isProcessingAll
  /\ Cardinality(WorkerCalls(calls)) = CONCURRENCY_LIMIT
  /\ queue # <<>>

\* C4: processAll invoked while a run is in progress changes nothing: no second
\* pool, no item queued again (no id is queued twice or queued while a worker
\* of the run analyses it).
C4_SecondRunIgnored ==
  [][/\ (isProcessingAll /\ ProcessAll)
          => UNCHANGED <<batch, queue, calls, workers, pendingItems, isProcessingAll>>
     /\ \A i, j \in DOMAIN queue' : queue'[i] = queue'[j] => i = j
     /\ \A c \in WorkerCalls(calls') : c.id \notin Range(queue')]_vars

\* C4 witness: a run is in progress while items are eligible, so a second
\* invocation would have work to start.
C4_BusyWithEligible ==
  /\ isProcessingAll
  /\ EligibleIds(batch) # <<>>
  /\ queue # <<>>

\* C5: once an id has left the store it never reappears, and a step in which a
\* call whose item is gone returns (the call leaves `calls`) changes no item of
\* the store (beyond the items the returning worker dequeues next).
C5_LateWriteDropped ==
  [][/\ \A id \in 1..(nextId - 1) : id \notin Ids(batch) => id \notin Ids(batch')
     /\ \A c \in calls :
          (c.id \notin Ids(batch) /\ c \notin calls')
            => /\ Len(batch') = Len(batch)
               /\ \A k \in DOMAIN batch :
                    batch[k].id \notin Dequeued => batch'[k] = batch[k]]_vars

\* C5 witness: a call is in flight for an item that was removed or cleared,
\* next to items still in the store.
C5_InFlightRemoved ==
  /\ batch # <<>>
  /\ \E c \in calls : c.id \notin Ids(batch)

\* C6: result is present iff status is completed and error is present iff
\* status is error, for every item in every reachable state.
C6_ResultErrorMatchStatus ==
  \A k \in DOMAIN batch :
    /\ batch[k].result # "none" <=> batch[k].status = "completed"
    /\ batch[k].error # "none" <=> batch[k].status = "error"

\* C7: a run started over ScenarioItems (> CONCURRENCY_LIMIT) pending items,
\* with a provider that always answers with success, eventually finishes with
\* all of them completed.
C7_RunCompletesAll ==
  (isProcessingAll /\ Len(pendingItems) = ScenarioItems)
    ~> (/\ ~isProcessingAll
        /\ Len(batch) = ScenarioItems
        /\ \A k \in DOMAIN batch : batch[k].status = "completed")

\* C7 witness: the run over ScenarioItems items is over and all are completed.
C7_AllCompleted ==
  /\ ~isProcessingAll
  /\ calls = {}
  /\ Len(batch) = ScenarioItems
  /\ \A k \in DOMAIN batch : batch[k].status = "completed" /\ batch[k].result # "none"

\* C8: a provider failure is recorded on its item only (status error with the
\* failure message); the worker that met it dequeues again; the run is over
\* exactly when no call of the run is in flight, and then every snapshot item
\* still in the store is completed or error.
C8_FailureIsolated ==
  [][/\ \A c \in calls :
          (c \notin calls' /\ ProviderReturn(c, "empty"))
            => /\ c.id \in Ids(batch)
                    => /\ StatusIn(batch', c.id) = "error"
                       /\ Find(batch', c.id).error = EmptyMsg
               /\ Len(batch') = Len(batch)
               /\ \A k \in DOMAIN batch :
                    (batch[k].id # c.id /\ batch[k].id \notin Dequeued)
                      => batch'[k] = batch[k]
               /\ (c.by = "worker" /\ queue # <<>>) => Len(queue') < Len(queue)
     /\ (isProcessingAll /\ ~isProcessingAll')
          => \A id \in Range(pendingItems) \cap Ids(batch') :
               StatusIn(batch', id) \in {"completed", "error"}
     /\ isProcessingAll' <=> WorkerCalls(calls') # {}]_vars

\* C8 witness: a run over more items than the limit is over, with an item in
\* error from a provider failure next to completed ones and nothing left to do.
C8_PartialFailure ==
  /\ ~isProcessingAll
  /\ calls = {}
  /\ Len(batch) > CONCURRENCY_LIMIT
  /\ \E k \in DOMAIN batch : batch[k].status = "error" /\ batch[k].error = EmptyMsg
  /\ \E k \in DOMAIN batch : batch[k].status = "completed"
  /\ \A k \in DOMAIN batch : batch[k].status \in {"completed", "error"}

\* C9: an empty provider body leaves the item in status error with the
\* empty-response message; a re-attempt (an analyzeOne that finds the item in
\* error) moves it to processing with the error cleared, and when its provider
\* call succeeds the item is completed with its result set and no error.
C9_EmptyThenRetry ==
  [][/\ \A c \in calls :
          /\ (c.id \in Ids(batch) /\ ProviderReturn(c, "empty"))
               => /\ StatusIn(batch', c.id) = "error"
                  /\ Find(batch', c.id).error = EmptyMsg
          /\ (c.id \in Ids(batch) /\ c.retry /\ ProviderReturn(c, "ok"))
               => /\ StatusIn(batch', c.id) = "completed"
                  /\ Find(batch', c.id).result # "none"
                  /\ Find(batch', c.id).error = "none"
     /\ \A id \in Ids(batch) \cap Ids(batch') :
          (StatusIn(batch, id) = "error" /\ StatusIn(batch', id) = "processing")
            => Find(batch', id).error = "none"]_vars

\* C10: processAll with no item in status pending or error changes nothing:
\* same store, no provider call, in-progress flag as it was.
C10_NoEligibleNoOp ==
  [][(ProcessAll /\ NoEligible(batch)) => UNCHANGED vars]_vars

\* C10 witness: a non-empty store with no eligible item and no run in
\* progress, where processAll can be invoked.
C10_NothingEligible ==
  /\ batch # <<>>
  /\ NoEligible(batch)
  /\ ~isProcessingAll

\* The words of the view of `result` under a platform tab, as a set.
ViewWords(result, platform) ==
  {k.word : k \in {x \in Range(KeywordsOf(result)) :
                     platform = "All" \/ platform \in x.platforms}}

SelectionSet(m, id) == Range(Selected(m, id))

\* C11: one toggleKeyword(id, w) flips the membership of w in the selection of
\* id and of no other word, leaves the other items' selections alone, and a
\* second toggleKeyword(id, w) applied to the selection the first one left
\* gives back the set selected before the first.
C11_ToggleFlipsOneWord ==
  [][\A id \in Ids(batch), w \in Range(WordOrder) :
       ToggleKeyword(id, w)
         => /\ \A v \in Range(WordOrder) :
                 (v \in SelectionSet(selectedKeywordsMap', id))
                   <=> (IF v = w THEN v \notin SelectionSet(selectedKeywordsMap, id)
                        ELSE v \in SelectionSet(selectedKeywordsMap, id))
            /\ \A other \in Ids(batch) \ {id} :
                 Selected(selectedKeywordsMap', other) = Selected(selectedKeywordsMap, other)
            /\ Range(Toggle(Selected(selectedKeywordsMap', id), w))
                 = SelectionSet(selectedKeywordsMap, id)]_vars

\* C11 witness: two items with selections only toggles produce (no view holds
\* a single word once): sky toggled off in one, sea toggled off in the other.
C11_ToggledSelection ==
  \E id, other \in Ids(batch) :
    /\ Selected(selectedKeywordsMap, id) = <<"sea">>
    /\ Selected(selectedKeywordsMap, other) = <<"sky">>

\* C12: after "Select Page" on the view of the modal's item under any platform
\* tab and sort order, the selection of that item is exactly the set of the
\* view's words (nothing selected earlier, no other keyword of the result), and
\* the other items' selections are as they were.
C12_SelectAllIsView ==
  [][\A platform \in PlatformTabs, sort \in Sorts :
       SelectAll(platform, sort)
         => /\ SelectionSet(selectedKeywordsMap', selectedResultId)
                 = ViewWords(Find(batch, selectedResultId).result, platform)
            /\ \A other \in Ids(batch) \ {selectedResultId} :
                 Selected(selectedKeywordsMap', other) = Selected(selectedKeywordsMap, other)]_vars

\* C12 witness: the selection of the modal's item is the Shutterstock view
\* (sky twice, which no toggle produces), a strict part of the result's words.
C12_PlatformViewSelected ==
  /\ selectedResultId \in Ids(batch)
  /\ Selected(selectedKeywordsMap, selectedResultId) = <<"sky", "sky">>

\* C16: a selection entry exists only for an id in the store; a step that takes
\* an item out of the store (remove, clearAll) also deletes its selection entry
\* and its stored payload; toggles and "Select Page" never create an entry for
\* an id outside the store.
C16_EntriesOnlyForItems ==
  /\ [](DOMAIN selectedKeywordsMap \subseteq Ids(batch))
  /\ [][\A id \in Ids(batch) \ Ids(batch') :
          /\ id \notin DOMAIN selectedKeywordsMap'
          /\ id \notin base64Store']_vars

\* C16 witness: the item of the result modal has been removed or cleared (the
\* modal's id is stale) while another item is in the store with a selection.
C16_RemovedNextToSelected ==
  /\ selectedResultId # 0
  /\ selectedResultId \notin Ids(batch)
  /\ \E id \in Ids(batch) : Selected(selectedKeywordsMap, id) # <<>>

\* C17: every entry of the selection map holds at least one word.
C17_NoEmptyEntry ==
  \A id \in DOMAIN selectedKeywordsMap : selectedKeywordsMap[id] # <<>>

\* C14: when the provider answers a call with an empty body, an unparsable body
\* or a body that parses but lacks a required field, the item ends in status
\* error without a result, and no item ever holds a partially populated result.
C14_MalformedFails ==
  /\ [](\A k \in DOMAIN batch : batch[k].result \in {"none", "full"})
  /\ [][\A c \in calls, resp \in {"empty", "unparsable", NonConforming} :
          (c.id \in Ids(batch) /\ ProviderReturn(c, resp))
            => /\ StatusIn(batch', c.id) = "error"
               /\ Find(batch', c.id).result = "none"]_vars

\* Files of a submission that declare an image content type.
ImageCount(files) ==
  Cardinality({k \in DOMAIN files : files[k] \in {"image", "corrupt"}})

\* The step is the insertion of submission n: it leaves the intakes and its
\* items are prepended to the store.
Inserted(n) ==
  /\ Len(intakes') < Len(intakes)
  /\ intakes' = RemoveAt(intakes, n)

\* C13: every file of a submission that is not of an image type is rejected
\* with an InvalidInputError outcome, before any decode: the submission starts
\* one normalization per file of an image type and none for another file; when
\* the submission is inserted, the store gains exactly one pending item without
\* result or error per image file, in front of the items it had; no other step
\* of file intake adds an item.
C13_MixedSubmission ==
  [][/\ \A files \in Submissions(IntakeFiles) :
          AddFiles(files, IntakeItems)
            => /\ \A k \in DOMAIN files :
                    files[k] = "other" => Disposition(files[k]) = "InvalidInputError"
               /\ batch' = batch /\ base64Store' = base64Store /\ previews' = previews
               /\ IF ImageCount(files) = 0 THEN intakes' = intakes
                  ELSE /\ Len(intakes') = Len(intakes) + 1
                       /\ Len(intakes'[Len(intakes')]) = ImageCount(files)
                       /\ \A k \in DOMAIN intakes'[Len(intakes')] :
                            /\ intakes'[Len(intakes')][k].kind # "other"
                            /\ intakes'[Len(intakes')][k].id = 0
     /\ \A n \in DOMAIN intakes :
          Inserted(n)
            => /\ Len(batch') = Len(batch) + Len(intakes[n])
               /\ \A k \in 1..Len(intakes[n]) :
                    /\ batch'[k].status = "pending"
                    /\ batch'[k].result = "none"
                    /\ batch'[k].error = "none"
                    /\ batch'[k].id \notin Ids(batch)
               /\ \A k, j \in 1..Len(intakes[n]) : batch'[k].id = batch'[j].id => k = j
               /\ \A k \in DOMAIN batch : batch'[k + Len(intakes[n])] = batch[k]
     /\ Len(intakes') >= Len(intakes) => Ids(batch') \subseteq Ids(batch)]_vars

\* C15: the object URL of an item is revoked exactly once, in the step that
\* takes the item out of the store (remove or clearAll): it is not revoked while
\* the item is in the store (or is still to be inserted), never twice, and
\* revoked as soon as the item is gone.
C15_PreviewReleasedOnce ==
  /\ [](\A h \in DOMAIN previews :
          /\ previews[h] <= 1
          /\ h \in Ids(batch) => previews[h] = 0)
  /\ [][\A h \in DOMAIN previews :
          /\ (h \in Ids(batch) /\ h \notin Ids(batch')) => previews'[h] = 1
          /\ previews'[h] # previews[h] => (h \in Ids(batch) /\ h \notin Ids(batch'))]_vars

\* C15 witness: one item from a file has been removed or cleared (its object
\* URL revoked once) while another one from a file is in the store.
C15_RevokedAndLive ==
  /\ \E h \in DOMAIN previews : previews[h] = 1 /\ h \notin Ids(batch)
  /\ \E h \in DOMAIN previews : previews[h] = 0 /\ h \in Ids(batch)

\* C20: analyzeOne on an item of the store whose payload is not in the payload
\* map (a direct analysis, or a worker of a run that starts) leaves the item in
\* status error with the payload-lost message and issues no provider call.
C20_PayloadLost ==
  [][\A id \in Ids(batch) :
       (/\ id \notin base64Store
        /\ \/ AnalyzeOne(id)
           \/ ProcessAll /\ ~isProcessingAll /\ Eligible(StatusIn(batch, id)))
         => /\ StatusIn(batch', id) = "error"
            /\ Find(batch', id).error = LostMsg
            /\ Find(batch', id).result = "none"
            /\ \A c \in calls' : c.id # id]_vars

\* C20 witness: an item is in the store in status error with the payload-lost
\* message and its payload is absent.
C20_LostPayloadError ==
  \E k \in DOMAIN batch :
    /\ batch[k].status = "error"
    /\ batch[k].error = LostMsg
    /\ batch[k].id \notin base64Store

\* The step starts a run: processAll is accepted.
RunStarts == ProcessAll /\ ~isProcessingAll /\ EligibleIds(batch) # <<>>

\* q2 is what is left of q after some dequeues from its head.
IsSuffix(q2, q) == \E n \in 0..Len(q) : q2 = SubSeq(q, n + 1, Len(q))

\* The worker calls the step issues.
NewWorkerCalls == WorkerCalls(calls') \ WorkerCalls(calls)

\* C18: the queue of a run is its snapshot without repetition and only loses
\* items from its head; every provider call a worker issues is for an item
\* dequeued in that very step, one call per item; outside the start of the run
\* a dequeue happens only when a worker's call has returned, and that step
\* issues at most one call; the item of a returned call, failed or not, is not
\* analysed again by the run.
C18_OncePerSnapshotItem ==
  [][/\ \A i, j \in DOMAIN pendingItems' : pendingItems'[i] = pendingItems'[j] => i = j
     /\ IF RunStarts THEN IsSuffix(queue', EligibleIds(batch))
        ELSE IsSuffix(queue', queue)
     /\ \A c \in NewWorkerCalls :
          /\ c.id \in (IF RunStarts THEN Range(EligibleIds(batch)) ELSE Range(queue))
          /\ c.id \notin Range(queue')
          /\ \A d \in NewWorkerCalls : d.id = c.id => d = c
     /\ ~RunStarts
          => /\ Dequeued # {} => \E c \in WorkerCalls(calls) : c \notin calls'
             /\ Cardinality(NewWorkerCalls) <= 1
     /\ \A c \in WorkerCalls(calls) :
          c \notin calls' => \A d \in WorkerCalls(calls') : d.id # c.id]_vars

\* C18 witness: a run over more items than the limit has emptied its queue, an
\* item of its snapshot has failed and is left in error while other workers of
\* the run are still awaiting the provider.
C18_FailedNotRetried ==
  /\ isProcessingAll
  /\ Len(pendingItems) > CONCURRENCY_LIMIT
  /\ queue = <<>>
  /\ \E id \in Range(pendingItems) \cap Ids(batch) :
       /\ StatusIn(batch, id) = "error"
       /\ \A c \in calls : c.id # id

\* C19: the in-progress flag is set by the step that starts a run, is set
\* whenever the run has an item queued or a worker's call in flight, is cleared
\* only by a step that leaves the queue empty and no worker's call in flight;
\* with a provider that answers every call it is eventually cleared; and with
\* the flag clear a processAll over eligible items starts a run.
C19_FlagFollowsRun ==
  /\ []((queue # <<>> \/ WorkerCalls(calls) # {}) => isProcessingAll)
  /\ [][/\ RunStarts => (isProcessingAll' \/ WorkerCalls(calls') = {})
        /\ (isProcessingAll /\ ~isProcessingAll')
             => (queue' = <<>> /\ WorkerCalls(calls') = {})
        /\ RunStarts => (batch' # batch /\ pendingItems' # pendingItems)]_vars
  /\ (isProcessingAll ~> ~isProcessingAll)

\* C19 witness: a run is in progress that re-attempts an item left in error by
\* an earlier analysis: the flag was cleared and a new processAll accepted.
C19_SecondRunAccepted ==
  /\ isProcessingAll
  /\ \E c \in WorkerCalls(calls) : c.retry

\* C21: an item that holds a result is left untouched by every step for as
\* long as it is in the store (no status, result or error write), and the
\* terminal write of a returning call lands on an item in status processing
\* (one terminal write per attempt).
C21_ResultImmutable ==
  [][/\ \A id \in Ids(batch) \cap Ids(batch') :
          Find(batch, id).result # "none" => Find(batch', id) = Find(batch, id)
     /\ \A c \in calls :
          (c \notin calls' /\ c.id \in Ids(batch))
            => StatusIn(batch, c.id) = "processing"]_vars

\* C22: a file that fails to decode gets no identifier, payload, preview or
\* item, and does not hold up its submission: every submission in flight is
\* eventually inserted (intake finishes) when the browser delivers its decodes.
C22_DecodeFailureIsolated ==
  /\ [](\A n \in DOMAIN intakes : \A k \in DOMAIN intakes[n] :
          intakes[n][k].kind = "corrupt" => intakes[n][k].id = 0)
  /\ ((intakes # <<>>) ~> (intakes = <<>>))

\* C23: every item of the store has its payload in the payload map.
C23_PayloadForEveryItem ==
  \A id \in Ids(batch) : id \in base64Store

====
